---- MODULE Spec2Model ----
(***************************************************************************)
(* Model of media_sorter.py: the MediaSorter class.                        *)
(*                                                                         *)
(*   SpecLim    _apply_limiter, one loop iteration per step                *)
(*   SpecAlloc  _generate_unique_path, called by two successive sorters    *)
(*   SpecRun    run(): the per-file pipeline and its statistics            *)
(*                                                                         *)
(* ratio_val = width / height is kept as the exact rational width/height:  *)
(* every comparison "ratio_val * q ? p" is the integer comparison          *)
(* "width * q ? p * height".                                               *)
(***************************************************************************)
EXTENDS Integers, Sequences, FiniteSets, TLC

VARIABLES
    \* ---- MediaSorter fields
    limiter,            \* self.limiter
    move_files,         \* self.move_files
    output_path,        \* self.output_path (a name, see Candidate)
    stats,              \* self.stats: label -> count
    total_size_bytes,   \* self.total_size_bytes
    \* ---- _apply_limiter
    width, height,      \* the ratio handed to _apply_limiter is width/height
    lower, upper,       \* the two bounds of the search
    result,             \* the returned pair
    lpc,                \* "idle" | "loop" | "done"
    \* ---- _generate_unique_path and the directories next to the input
    exists,             \* names existing in target_path.parent
    counter,            \* local counter
    apc,                \* "start" | "loop" | "returned" | "ran" | "finished"
    call,               \* which sorter is being constructed (1 or 2)
    first_path,         \* what the first sorter's call returned
    is_dir,             \* target_path.is_dir()
    created,            \* the first sorter's run() created its output root
    \* ---- run()
    recognized,         \* file -> its suffix is in valid_extensions
    src_size,           \* file -> st_size of the source file
    in_source,          \* files present in target_path
    out_tree,           \* files present under output_path: [label, file, size]
    subdirs,            \* ratio folders existing under output_path
    status,             \* file -> position in the per-file pipeline
    cur,                \* index of the entry the for loop is at
    rpc,                \* position inside run()
    dims,               \* local (width, height) of the current file
    ratio_folder,       \* local (x, y) of the current file
    file_size           \* local file_size of the current file

limVars   == <<width, height, lower, upper, result, lpc>>
allocVars == <<exists, counter, apc, call, first_path, is_dir, created>>
runVars   == <<recognized, src_size, in_source, out_tree, subdirs, status, cur, rpc,
               dims, ratio_folder, file_size>>
fieldVars == <<limiter, move_files, output_path, stats, total_size_bytes>>
vars      == <<fieldVars, limVars, allocVars, runVars>>

\* ------------------------------------------------------------------ bounds
MaxW     == 12    \* widths 0..MaxW
MaxH     == 12    \* heights 1..MaxH
MaxLim   == 8     \* limiters 1..MaxLim
MaxDirs  == 3     \* pre-existing output names: base, base (1) .. base (MaxDirs)
NumFiles == 2     \* entries of the input directory
MaxSize  == 1     \* file sizes 0..MaxSize

\* The known values of the documentation, checked besides the bounded grid.
KnownRatios == {<<1920, 1080>>, <<1000, 1000>>, <<2560, 1080>>}
DefaultLimiter == 10

\* ------------------------------------------------------------ arithmetic
RECURSIVE GCD(_, _)
GCD(a, b) == IF b = 0 THEN a ELSE GCD(b, a % b)

Abs(n) == IF n < 0 THEN -n ELSE n

\* ------------------------------------------------------- _apply_limiter
\* mediant = (lower[0] + upper[0], lower[1] + upper[1])
MediantSkewed(lo, up) == <<lo[1] + up[1], lo[2] + up[2] + 1>>
MediantTypo(lo, up) == <<lo[1] + up[1], lo[2] + up[1]>>
Mediant(lo, up) == <<lo[1] + up[1], lo[2] + up[2]>>

\* ratio_val * mediant[1] > mediant[0]
Above(w, h, m) == w * m[2] > m[1] * h

\* ratio_val * mediant[1] == mediant[0]
Exact(w, h, m) == w * m[2] = m[1] * h

\* if ratio_val * mediant[1] > mediant[0]:
\*     if self.limiter < mediant[1]: return upper
\*     lower = mediant
LoopAboveReturnsLower ==
    /\ lpc = "loop"
    /\ LET m == Mediant(lower, upper) IN
        /\ Above(width, height, m)
        /\ IF limiter < m[2]
             THEN /\ result' = lower
                  /\ lpc' = "done"
                  /\ UNCHANGED <<lower, upper>>
             ELSE /\ lower' = m
                  /\ UNCHANGED <<upper, result, lpc>>
    /\ UNCHANGED <<width, height, fieldVars, allocVars, runVars>>
LoopAbove ==
    /\ lpc = "loop"
    /\ LET m == Mediant(lower, upper) IN
        /\ Above(width, height, m)
        /\ IF limiter < m[2]
             THEN /\ result' = upper
                  /\ lpc' = "done"
                  /\ UNCHANGED <<lower, upper>>
             ELSE /\ lower' = m
                  /\ UNCHANGED <<upper, result, lpc>>
    /\ UNCHANGED <<width, height, fieldVars, allocVars, runVars>>

\* elif ratio_val * mediant[1] == mediant[0]: return mediant
LoopExact ==
    /\ lpc = "loop"
    /\ LET m == Mediant(lower, upper) IN
        /\ ~Above(width, height, m)
        /\ Exact(width, height, m)
        /\ result' = m
        /\ lpc' = "done"
    /\ UNCHANGED <<lower, upper, width, height, fieldVars, allocVars, runVars>>

\* else:
\*     if self.limiter < mediant[1]: return lower
\*     upper = mediant
LoopBelow ==
    /\ lpc = "loop"
    /\ LET m == Mediant(lower, upper) IN
        /\ ~Above(width, height, m)
        /\ ~Exact(width, height, m)
        /\ IF limiter < m[2]
             THEN /\ result' = lower
                  /\ lpc' = "done"
                  /\ UNCHANGED <<lower, upper>>
             ELSE /\ upper' = m
                  /\ UNCHANGED <<lower, result, lpc>>
    /\ UNCHANGED <<width, height, fieldVars, allocVars, runVars>>

\* The same search as a function of its inputs, for the call made by run().
\* SearchFrom is one iteration on the mediant m; Search computes the mediant
\* once per iteration (the singleton set binds it to its value).
RECURSIVE Search(_, _, _, _, _)
SearchFrom(m, lo, up, w, h, lim) ==
    IF Above(w, h, m)
      THEN IF lim < m[2] THEN up ELSE Search(m, up, w, h, lim)
    ELSE IF Exact(w, h, m)
      THEN m
    ELSE IF lim < m[2] THEN lo ELSE Search(lo, m, w, h, lim)

Search(lo, up, w, h, lim) ==
    CHOOSE r \in {SearchFrom(m, a, b, w, h, lim) :
                    m \in {Mediant(lo, up)}, a \in {lo}, b \in {up}} : TRUE

ApplyLimiter(w, h, lim) == Search(<<0, 1>>, <<1, 0>>, w, h, lim)

\* ------------------------------------------------- values outside a spec
\* no path: 0 is no limiter, so <<0, 0>> is no name
NoPath == <<0, 0>>

IdleLim ==
    /\ width = 0 /\ height = 1
    /\ lower = <<0, 1>> /\ upper = <<1, 0>>
    /\ result = <<0, 0>> /\ lpc = "idle"

IdleAlloc ==
    /\ exists = {} /\ counter = 0 /\ apc = "finished" /\ call = 0
    /\ first_path = NoPath /\ created = FALSE

IdleRun ==
    /\ recognized = <<>> /\ src_size = <<>> /\ in_source = {} /\ out_tree = {}
    /\ subdirs = {} /\ status = <<>> /\ cur = 0 /\ rpc = "idle"
    /\ dims = <<0, 0>> /\ ratio_folder = <<0, 0>> /\ file_size = 0

IdleFields ==
    /\ move_files = FALSE /\ output_path = NoPath
    /\ stats = <<>> /\ total_size_bytes = 0

\* ------------------------------------------------------------- SpecLim
LimInputs ==
    {<<w, h, l>> : w \in 0..MaxW, h \in 1..MaxH, l \in 1..MaxLim}
        \cup {<<k[1], k[2], DefaultLimiter>> : k \in KnownRatios}

InitLim ==
    /\ \E i \in LimInputs :
        /\ width = i[1] /\ height = i[2] /\ limiter = i[3]
    /\ lower = <<0, 1>> /\ upper = <<1, 0>>
    /\ result = <<0, 0>> /\ lpc = "loop"
    /\ is_dir = TRUE
    /\ IdleFields /\ IdleAlloc /\ IdleRun

NextLim == LoopAbove \/ LoopExact \/ LoopBelow

SpecLim == InitLim /\ [][NextLim]_vars

\* The loop is sequential code: an enabled iteration is eventually executed.
FairSpecLim == SpecLim /\ WF_vars(NextLim)

\* ------------------------------------------------ _generate_unique_path
\* A name next to the input directory is <<l, k>>:
\*   k = 0   f"{target_path.name}_sorted_L{l}"
\*   k >= 1  f"{target_path.name}_sorted_L{l} ({k})"
\* (the input name is fixed; two names are equal iff l and k are).
\* base_name = f"{self.target_path.name}_sorted_L{self.limiter}"
BaseCandidate == <<limiter, 0>>

\* candidate = self.target_path.parent / f"{base_name} ({counter})"
CandidateSkips(c) == <<limiter, c + 1>>
Candidate(c) == <<limiter, c>>

\* lines 37-43: the base name is returned if free, else the search starts at 1
AllocFirst ==
    /\ apc = "start"
    /\ IF BaseCandidate \notin exists
         THEN /\ output_path' = BaseCandidate
              /\ apc' = "returned"
              /\ UNCHANGED counter
         ELSE /\ counter' = 1
              /\ apc' = "loop"
              /\ UNCHANGED output_path
    /\ UNCHANGED <<limiter, move_files, stats, total_size_bytes>>
    /\ UNCHANGED <<exists, call, first_path, is_dir, created, limVars, runVars>>

\* lines 44-48: one iteration of the while True loop
AllocLoop ==
    /\ apc = "loop"
    /\ IF Candidate(counter) \notin exists
         THEN /\ output_path' = Candidate(counter)
              /\ apc' = "returned"
              /\ UNCHANGED counter
         ELSE /\ counter' = counter + 1
              /\ UNCHANGED <<output_path, apc>>
    /\ UNCHANGED <<limiter, move_files, stats, total_size_bytes>>
    /\ UNCHANGED <<exists, call, first_path, is_dir, created, limVars, runVars>>

\* lines 86-90 of the first sorter's run(): nothing is created when the target
\* is not a directory; else output_path.mkdir(parents=True, exist_ok=True)
FirstRunMkdir ==
    /\ apc = "returned" /\ call = 1
    /\ exists' = IF is_dir THEN exists \cup {output_path} ELSE exists
    /\ created' = is_dir
    /\ first_path' = output_path
    /\ apc' = "ran"
    /\ UNCHANGED <<counter, call, is_dir, fieldVars, limVars, runVars>>

\* line 30: a second MediaSorter is constructed on the same target and limiter
SecondSorter ==
    /\ apc = "ran"
    /\ call' = 2
    /\ apc' = "start"
    /\ counter' = 0
    /\ output_path' = NoPath
    /\ UNCHANGED <<limiter, move_files, stats, total_size_bytes>>
    /\ UNCHANGED <<exists, first_path, is_dir, created, limVars, runVars>>

\* ----------------------------------------------------------- SpecAlloc
\* The limiters whose output names may already exist next to the input.
AllocLimiters == {1, DefaultLimiter}

InitAlloc ==
    /\ limiter \in AllocLimiters
    /\ exists \in SUBSET (AllocLimiters \X (0..MaxDirs))
    /\ is_dir \in BOOLEAN
    /\ counter = 0 /\ apc = "start" /\ call = 1
    /\ first_path = NoPath /\ created = FALSE
    /\ IdleFields /\ IdleLim /\ IdleRun

NextAlloc == AllocFirst \/ AllocLoop \/ FirstRunMkdir \/ SecondSorter

SpecAlloc == InitAlloc /\ [][NextAlloc]_vars

\* Construction and run() are sequential code: an enabled step is executed.
FairSpecAlloc == SpecAlloc /\ WF_vars(NextAlloc)

\* ------------------------------------------------------------------ run()
\* The entries of target_path, in the order iterdir() yields them.
Files == 1..NumFiles

\* ratio_folder = f"{x}X{y}": the label is kept as the pair (x, y); the
\* separator X is no digit, so two labels are equal iff x and y are.
Label(xy) == <<xy[1], xy[2]>>

\* self.stats is a Counter: a missing key reads 0
StatsGet(l) == IF l \in DOMAIN stats THEN stats[l] ELSE 0

\* self.stats[ratio_folder] += 1
StatsResets(l) ==
    [k \in DOMAIN stats \cup {l} |-> IF k = l THEN 1 ELSE stats[k]]
StatsIncrement(l) ==
    [k \in DOMAIN stats \cup {l} |-> IF k = l THEN StatsGet(l) + 1 ELSE stats[k]]

\* width, height, ratio_folder and file_size are locals of one iteration: each
\* is assigned before it is read in the next, so the end of an iteration
\* forgets them.
ForgetLocals ==
    /\ dims' = <<0, 0>>
    /\ ratio_folder' = <<0, 0>>
    /\ file_size' = 0

\* except Exception as e: logging.error(...); the for loop goes on
SkipAborts(f) ==
    /\ status' = [status EXCEPT ![f] = "skipped"]
    /\ rpc' = "aborted"
    /\ ForgetLocals
Skip(f) ==
    /\ status' = [status EXCEPT ![f] = "skipped"]
    /\ rpc' = "loop"
    /\ ForgetLocals

\* the source directory after shutil.move / shutil.copy2 of f succeeded
SourceAlwaysRemoved(f) == in_source \ {f}
SourceAfter(f) == IF move_files THEN in_source \ {f} ELSE in_source

\* lines 86-93: not a directory: log and return; mkdir of the output root
\* raises out of run() when the root cannot be created
RunStart ==
    /\ rpc = "start"
    /\ \/ /\ ~is_dir
          /\ rpc' = "aborted"
       \/ /\ is_dir
          /\ rpc' \in {"loop", "aborted"}
    /\ UNCHANGED <<recognized, src_size, in_source, out_tree, subdirs, status, cur,
                   dims, ratio_folder, file_size>>
    /\ UNCHANGED <<fieldVars, limVars, allocVars>>

\* lines 95-97: the next entry; an unrecognized suffix: continue
NextEntry ==
    /\ rpc = "loop" /\ cur < NumFiles
    /\ cur' = cur + 1
    /\ \/ /\ ~recognized[cur + 1]
          /\ status' = [status EXCEPT ![cur + 1] = "ignored"]
          /\ UNCHANGED rpc
       \/ /\ recognized[cur + 1]
          /\ status' = [status EXCEPT ![cur + 1] = "discovered"]
          /\ rpc' = "probe"
    /\ UNCHANGED <<recognized, src_size, in_source, out_tree, subdirs,
                   dims, ratio_folder, file_size>>
    /\ UNCHANGED <<fieldVars, limVars, allocVars>>

\* What _get_dimensions may return: the documented sizes, a zero width and a
\* zero height (the metadata extractor's integers are not checked).
ProbeResults == KnownRatios \cup {<<0, 480>>, <<640, 0>>}

\* line 100: width, height = self._get_dimensions(file), which raises
\* ValueError (or the libraries' own errors) or returns two integers
Probe ==
    /\ rpc = "probe"
    /\ \/ Skip(cur)
       \/ /\ dims' \in ProbeResults
          /\ status' = [status EXCEPT ![cur] = "probed"]
          /\ rpc' = "ratio"
          /\ UNCHANGED <<ratio_folder, file_size>>
    /\ UNCHANGED <<recognized, src_size, in_source, out_tree, subdirs, cur>>
    /\ UNCHANGED <<fieldVars, limVars, allocVars>>

\* lines 101-104: width / height raises ZeroDivisionError for height 0;
\* x, y = self._apply_limiter(width / height); ratio_folder = f"{x}X{y}"
Approximate ==
    /\ rpc = "ratio"
    /\ \/ /\ dims[2] = 0
          /\ Skip(cur)
       \/ /\ dims[2] # 0
          /\ ratio_folder' = Label(ApplyLimiter(dims[1], dims[2], limiter))
          /\ status' = [status EXCEPT ![cur] = "approximated"]
          /\ rpc' = "mkdir"
          /\ UNCHANGED <<dims, file_size>>
    /\ UNCHANGED <<recognized, src_size, in_source, out_tree, subdirs, cur>>
    /\ UNCHANGED <<fieldVars, limVars, allocVars>>

\* line 105: subdir.mkdir(exist_ok=True)
MakeSubdir ==
    /\ rpc = "mkdir"
    /\ \/ /\ Skip(cur)
          /\ UNCHANGED subdirs
       \/ /\ subdirs' = subdirs \cup {ratio_folder}
          /\ rpc' = "stat"
          /\ UNCHANGED <<status, dims, ratio_folder, file_size>>
    /\ UNCHANGED <<recognized, src_size, in_source, out_tree, cur>>
    /\ UNCHANGED <<fieldVars, limVars, allocVars>>

\* lines 107-108: file_size = file.stat().st_size
Stat ==
    /\ rpc = "stat"
    /\ \/ Skip(cur)
       \/ /\ file_size' = src_size[cur]
          /\ rpc' = "relocate"
          /\ UNCHANGED <<status, dims, ratio_folder>>
    /\ UNCHANGED <<recognized, src_size, in_source, out_tree, subdirs, cur>>
    /\ UNCHANGED <<fieldVars, limVars, allocVars>>

\* lines 110-113: shutil.move or shutil.copy2 to subdir / file.name; either
\* raises and changes nothing, or the file is at its destination (and, moved,
\* gone from the source)
Relocate ==
    /\ rpc = "relocate"
    /\ \/ /\ Skip(cur)
          /\ UNCHANGED <<in_source, out_tree>>
       \/ /\ out_tree' = out_tree \cup
                {[label |-> ratio_folder, file |-> cur, size |-> src_size[cur]]}
          /\ in_source' = SourceAfter(cur)
          /\ status' = [status EXCEPT ![cur] = "placed"]
          /\ rpc' = "account"
          /\ UNCHANGED <<dims, ratio_folder, file_size>>
    /\ UNCHANGED <<recognized, src_size, subdirs, cur>>
    /\ UNCHANGED <<fieldVars, limVars, allocVars>>

\* lines 115-117: the counters, then the next entry
Account ==
    /\ rpc = "account"
    /\ stats' = StatsIncrement(ratio_folder)
    /\ total_size_bytes' = total_size_bytes + file_size
    /\ rpc' = "loop"
    /\ ForgetLocals
    /\ UNCHANGED <<limiter, move_files, output_path>>
    /\ UNCHANGED <<recognized, src_size, in_source, out_tree, subdirs, status, cur>>
    /\ UNCHANGED <<limVars, allocVars>>

\* line 122: the entries are exhausted: self._print_summary()
Summary ==
    /\ rpc = "loop" /\ cur = NumFiles
    /\ rpc' = "summary"
    /\ UNCHANGED <<recognized, src_size, in_source, out_tree, subdirs, status, cur,
                   dims, ratio_folder, file_size>>
    /\ UNCHANGED <<fieldVars, limVars, allocVars>>

\* The process is terminated while the loop runs (no cancellation other than
\* process termination): whatever has been done stays done.
Interrupt ==
    /\ rpc \in {"loop", "probe", "ratio", "mkdir", "stat", "relocate", "account"}
    /\ rpc' = "interrupted"
    /\ UNCHANGED <<recognized, src_size, in_source, out_tree, subdirs, status, cur,
                   dims, ratio_folder, file_size>>
    /\ UNCHANGED <<fieldVars, limVars, allocVars>>

\* ------------------------------------------------------------- SpecRun
InitRun ==
    /\ limiter \in {1, DefaultLimiter}
    /\ move_files \in BOOLEAN
    /\ is_dir \in BOOLEAN
    /\ output_path = <<limiter, 0>>
    /\ stats = <<>> /\ total_size_bytes = 0
    /\ recognized \in [Files -> BOOLEAN]
    /\ src_size \in [Files -> 0..MaxSize]
    /\ in_source = Files /\ out_tree = {} /\ subdirs = {}
    /\ status = [f \in Files |-> "pending"]
    /\ cur = 0 /\ rpc = "start"
    /\ dims = <<0, 0>> /\ ratio_folder = <<0, 0>> /\ file_size = 0
    /\ IdleLim /\ IdleAlloc

NextRun ==
    \/ RunStart \/ NextEntry \/ Probe \/ Approximate \/ MakeSubdir
    \/ Stat \/ Relocate \/ Account \/ Summary

SpecRun == InitRun /\ [][NextRun]_vars

\* run() is sequential code: an enabled step is executed.
FairSpecRun == SpecRun /\ WF_vars(NextRun)

\* run() with process termination as a possible step
NextRunInt == NextRun \/ Interrupt

SpecRunInt == InitRun /\ [][NextRunInt]_vars

\* ===================================================== claims on SpecLim
Returned == lpc = "done"

\* C1: for limiter >= 1 and r = width/height (width >= 0, height >= 1) the
\* returned pair (x, y) has x >= 0 and 1 <= y <= limiter on every return path.
C1_DenominatorWithinLimiter ==
    Returned => /\ result[1] >= 0
                /\ 1 <= result[2]
                /\ result[2] <= limiter

\* |width/height - p/q| < |width/height - x/y|, for q >= 1 and y >= 1
Closer(p, q, x, y) ==
    Abs(width * q - p * height) * y < Abs(width * y - x * height) * q

\* C2: for r > 0 no fraction p/q with 1 <= q <= limiter and p >= 0 is closer
\* to r than the returned x/y (scan over the denominators 1..limiter; for
\* each, the numerators up to one past r*q, beyond which p/q only recedes).
C2_ClosestFraction ==
    (Returned /\ width > 0) =>
        \A q \in 1..limiter : \A p \in 0..((width * q) \div height + 1) :
            ~Closer(p, q, result[1], result[2])

\* C3: a ratio x0/y0 in lowest terms with y0 <= limiter is returned as
\* (x0, y0), 0/1 included; 1920/1080 with limiter 10 gives (16, 9) and
\* 1000/1000 gives (1, 1).
C3_ExactMatch ==
    Returned =>
        /\ (GCD(width, height) = 1 /\ height <= limiter)
              => result = <<width, height>>
        /\ (width = 1920 /\ height = 1080 /\ limiter = 10) => result = <<16, 9>>
        /\ (width = 1000 /\ height = 1000 /\ limiter = 10) => result = <<1, 1>>

C3_Witness ==
    /\ Returned
    /\ GCD(width, height) = 1
    /\ 1 < height /\ height < width /\ height <= limiter
    /\ result = <<width, height>>

\* C4 as stated: with limiter = 1 the result is (0, 1) or (1, 1).
C4_ZeroOrOne ==
    (Returned /\ limiter = 1) => result \in {<<0, 1>>, <<1, 1>>}

\* r is exactly k + 1/2 for an integer k
HalfInteger == (2 * width) % height = 0 /\ ((2 * width) \div height) % 2 = 1

\* the integer nearest to r, for r not a half-integer
Nearest ==
    LET k == width \div height
    IN  IF 2 * width > (2 * k + 1) * height THEN k + 1 ELSE k

\* C4 amended: with limiter = 1 the result is (n, 1), n the integer nearest
\* to r, except that a ratio of exactly k + 1/2 is returned by the exact-match
\* branch as (2k + 1, 2).
C4_NearestInteger ==
    (Returned /\ limiter = 1) =>
        IF HalfInteger
          THEN result = <<(2 * width) \div height, 2>>
          ELSE result = <<Nearest, 1>>

C4_Witness ==
    /\ Returned /\ limiter = 1
    /\ width % height # 0 /\ ~HalfInteger
    /\ result[1] >= 2 /\ result[2] = 1

\* C5: the while True loop reaches a return statement: the search terminates.
C5_Terminates == <>Returned

C5_Witness ==
    /\ Returned
    /\ lower[2] + upper[2] > limiter
    /\ lower[2] > 2 /\ upper[2] > 2
    /\ result \in {lower, upper}

\* C6: the returned pair is in lowest terms; while the search runs the bounds
\* lower = (a, b), upper = (c, d) are adjacent, c*b - a*d = 1, and a/b <= r <= c/d.
C6_LowestTerms ==
    /\ Returned => GCD(result[1], result[2]) = 1
    /\ lpc = "loop" =>
          /\ upper[1] * lower[2] - lower[1] * upper[2] = 1
          /\ lower[1] * height <= width * lower[2]
          /\ width * upper[2] <= upper[1] * height

C6_Witness ==
    /\ Returned
    /\ GCD(width, height) > 1
    /\ result[2] > 1 /\ result[1] > result[2]
    /\ GCD(result[1], result[2]) = 1


\* =================================================== claims on SpecAlloc
\* the suffix of a name: 0 for the plain base name
Suffix(path) == path[2]

\* C7: _generate_unique_path terminates and returns a name that does not
\* exist: the base name if free, else the base name with the smallest free
\* suffix k >= 1; once the first returned path has been created, a second call
\* returns a different path with a strictly larger suffix.
C7_UniquePath ==
    /\ [](apc = "returned" =>
            /\ output_path \notin exists
            /\ output_path[1] = limiter
            /\ \A k \in 0..(Suffix(output_path) - 1) : <<limiter, k>> \in exists)
    /\ []((apc = "returned" /\ call = 2 /\ created) =>
            /\ output_path # first_path
            /\ Suffix(output_path) > Suffix(first_path))
    /\ <>(apc = "returned" /\ call = 2)

C7_Witness ==
    /\ apc = "returned" /\ call = 2 /\ created
    /\ Suffix(first_path) >= 1
    /\ Suffix(output_path) > Suffix(first_path) + 1
    /\ output_path \notin exists


\* ===================================================== claims on SpecRun
\* the per-file state machine: the steps a file may take
FileSteps ==
    {<<"pending", "ignored">>, <<"pending", "discovered">>,
     <<"discovered", "probed">>, <<"discovered", "skipped">>,
     <<"probed", "approximated">>, <<"probed", "skipped">>,
     <<"approximated", "placed">>, <<"approximated", "skipped">>}

Handled(f) == status[f] \in {"placed", "skipped", "ignored"}

\* C8: once the target is a directory and the output root exists, every
\* recognized entry goes discovered -> probed -> approximated -> placed, or
\* is skipped at its first failing step and never retried; a file is touched
\* only after all the files before it are handled; whatever fails, the run
\* reaches the summary with every recognized entry placed or skipped.
C8_FailureIsolation ==
    /\ [][\A f \in Files :
            status'[f] # status[f] =>
                /\ <<status[f], status'[f]>> \in FileSteps
                /\ \A g \in Files : g < f => Handled(g) /\ status'[g] = status[g]]_vars
    /\ [](rpc = "summary" =>
            \A f \in Files :
                status[f] \in (IF recognized[f] THEN {"placed", "skipped"}
                                                ELSE {"ignored"}))
    /\ [](rpc = "loop" => <>(rpc = "summary"))

C8_Witness ==
    /\ rpc = "summary"
    /\ \E f, g \in Files :
        /\ f < g
        /\ status[f] = "skipped"
        /\ status[g] = "placed"

RECURSIVE SumCounts(_)
SumCounts(labels) ==
    IF labels = {} THEN 0
    ELSE LET l == CHOOSE k \in labels : TRUE
         IN  StatsGet(l) + SumCounts(labels \ {l})

RECURSIVE SumSizes(_)
SumSizes(placed) ==
    IF placed = {} THEN 0
    ELSE LET e == CHOOSE k \in placed : TRUE
         IN  e.size + SumSizes(placed \ {e})

PlacedIn(l) == {e \in out_tree : e.label = l}

AllLabels == DOMAIN stats \cup subdirs \cup {e.label : e \in out_tree}

C10_NoFileLost ==
    /\ ~move_files => in_source = Files
    /\ \A f \in Files :
        /\ f \notin in_source =>
              /\ recognized[f]
              /\ status[f] = "placed"
              /\ \E e \in out_tree :
                    /\ e.file = f
                    /\ e.size = src_size[f]
                    /\ e.label \in subdirs
        /\ status[f] \in {"pending", "discovered", "probed", "approximated",
                          "skipped", "ignored"} => f \in in_source
    /\ rpc = "account" =>
          [label |-> Label(ApplyLimiter(dims[1], dims[2], limiter)),
           file |-> cur, size |-> src_size[cur]] \in out_tree

C10_Witness ==
    /\ rpc = "interrupted"
    /\ move_files
    /\ \E f, g \in Files :
        /\ f \notin in_source /\ status[f] = "placed"
        /\ g \in in_source /\ status[g] = "skipped"

====
